---- MODULE Spec2Model ----
(***************************************************************************)
(* Taiwan humidity timelapse: the per-frame interpolation of               *)
(* scripts/update_humidity.py (land mask, clipping, statistics) and the    *)
(* download loop that drives it, with scripts/update_data.py as the writer *)
(* of the temperature file the land mask is read from; and main of either  *)
(* script: the listing of the files, the frame limit, the download loop    *)
(* and the timelapse file written at the end.                              *)
(*                                                                         *)
(* Numbers.  Humidity values are integers in hundredths of a percent       *)
(* (5000 is 50.0 %), values rounded to one decimal are integers in tenths  *)
(* (500 is 50.0).  Temperatures of the reference file are whole degrees.   *)
(* Python's None, numpy's nan and a string float() cannot parse are three  *)
(* integers outside every value range.                                     *)
(***************************************************************************)
EXTENDS Integers, Sequences, FiniteSets, TLC

(* ------------------------------ bounds --------------------------------- *)

\* The target grid (120 x 67 in GEO_INFO) scaled down.
GridRows == 2
GridCols == 2
\* Files of one run, stations of one file beside the one extra station.
MaxFiles == 2
MaxStations == 4
\* Times update_data.py rewrites the temperature file during one run.
MaxTempWrites == 1

(* ------------------------- values of the program ----------------------- *)

None == -100002
NaN == -100001
NonNumeric == -100003

\* len(valid_stations) < 4
MinStations == 4
\* np.clip(grid_humidity, 0, 100), in hundredths
ClipLo == 0
ClipHi == 10000
\* (valid_grid > 0.1) & (valid_grid < 99.9), in hundredths
InnerLo == 10
InnerHi == 9990
\* val > -900
LandFloor == -900

(* --------------------------- small helpers ----------------------------- *)

RECURSIVE SumSeq(_)
SumSeq(s) == IF s = << >> THEN 0 ELSE Head(s) + SumSeq(Tail(s))

MinSeq(s) == CHOOSE x \in {s[k] : k \in 1..Len(s)} : \A k \in 1..Len(s) : x <= s[k]
MaxSeq(s) == CHOOSE x \in {s[k] : k \in 1..Len(s)} : \A k \in 1..Len(s) : x >= s[k]

\* An array's cells in row-major order (numpy's order of a boolean selection).
RECURSIVE Flatten(_)
Flatten(m) == IF m = << >> THEN << >> ELSE Head(m) \o Flatten(Tail(m))

\* numpy's shape of a nested list with rows of equal length.
Shape(m) == IF m = << >> THEN <<0>> ELSE <<Len(m), Len(m[1])>>

\* round(x, 1) of a value in hundredths, as tenths.  A decimal tie (x.x5) goes
\* where the double nearest to it lies; for the cell values of this model
\* (0.05, 99.95) that is upwards, and means are rounded the same way.
Round1(h) == (h + 5) \div 10

\* round(np.mean(a), 1) of a non-empty array of hundredths, as tenths.
RoundMean1(a) == (2 * SumSeq(a) + 10 * Len(a)) \div (20 * Len(a))

(* ------------------- the temperature file and the mask ----------------- *)

\* A first frame of rows x cols cells: row 1 holds p, the other rows q.
RefGrid(rows, cols, p, q) ==
    [r \in 1..rows |-> [c \in 1..cols |-> IF r = 1 THEN p ELSE q]]

\* Cells of a temperature frame: null, the -999 "no data" value, the floor
\* itself, a temperature.
RefPalette == {None, -999, LandFloor, 25}

\* What public/temperature_timelapse_data.json can hold when it is parsed with
\* frames: a first frame whose 'data' is the empty list (update_data.py's
\* data.get('data', [])), a grid of the target shape, a grid with one row or
\* one column too many, a grid with a cell that is not a number.
WrittenTempFiles ==
    {[kind |-> "frames", data |-> << >>]}
    \cup {[kind |-> "frames", data |-> RefGrid(GridRows, GridCols, p, q)] :
            p \in RefPalette, q \in RefPalette}
    \cup {[kind |-> "frames", data |-> RefGrid(GridRows + 1, GridCols, 25, 25)],
          [kind |-> "frames", data |-> RefGrid(GridRows, GridCols + 1, 25, 25)],
          [kind |-> "frames", data |-> RefGrid(GridRows, GridCols, 25, NonNumeric)]}

\* ... and when it is not: no file, not JSON, no 'frames' or an empty list of
\* frames, a first frame without 'data'.
TempFiles ==
    {[kind |-> k, data |-> << >>] : k \in {"missing", "badjson", "noframes", "nodata"}}
    \cup WrittenTempFiles

\* The mask is None, or a numpy array: rows is the nested list it was built
\* from (np.array([]) is an array, not None).
NoMask == [none |-> TRUE, rows |-> << >>]
MaskArray(m) == [none |-> FALSE, rows |-> m]

\* val is not None and val > -900; the comparison of a string raises TypeError.
IsLand(val) == val # None /\ val > LandFloor

load_land_mask(file) ==
    IF file.kind = "missing" THEN NoMask
    ELSE IF file.kind \in {"badjson", "noframes", "nodata"} THEN NoMask
    ELSE IF \E r \in 1..Len(file.data) : \E c \in 1..Len(file.data[r]) :
                file.data[r][c] = NonNumeric
    THEN NoMask
    ELSE MaskArray([r \in 1..Len(file.data) |->
                      [c \in 1..Len(file.data[r]) |-> IsLand(file.data[r][c])]])

\* [mask: the value returned, LAND_MASK: the global afterwards, loaded: whether
\* load_land_mask ran]
get_land_mask(LM, file) ==
    IF LM = NoMask
    THEN [mask |-> load_land_mask(file), LAND_MASK |-> load_land_mask(file), loaded |-> TRUE]
    ELSE [mask |-> LM, LAND_MASK |-> LM, loaded |-> FALSE]

(* ------------------------------ stations ------------------------------- *)

Layouts == {"spread", "line"}
Profiles == {"normal", "wild"}

\* Station k of a network: on a lattice, or all on one line of latitude.
SiteLon(layout, k) == IF layout = "line" THEN k ELSE k % 3
SiteLat(layout, k) == IF layout = "line" THEN 0 ELSE k \div 3

\* Its reading: 20 % and 50 % alternating, or readings outside 0..100 %.
SiteHumidity(profile, k) ==
    IF profile = "normal" THEN (IF k % 2 = 1 THEN 2000 ELSE 5000)
    ELSE (IF k % 2 = 1 THEN -500 ELSE 10500)

Station(layout, profile, k) ==
    [humidity |-> SiteHumidity(profile, k),
     latitude |-> SiteLat(layout, k),
     longitude |-> SiteLon(layout, k)]

\* One more station ahead of the network's: none, one with a field that is
\* null, one whose humidity is a string that is no number.
Extras ==
    {<< >>,
     <<[humidity |-> None, latitude |-> 1, longitude |-> 1]>>,
     <<[humidity |-> 5000, latitude |-> None, longitude |-> 1]>>,
     <<[humidity |-> 5000, latitude |-> 1, longitude |-> None]>>,
     <<[humidity |-> NonNumeric, latitude |-> 1, longitude |-> 1]>>}

StationLists ==
    {extra \o [k \in 1..n |-> Station(layout, profile, k)] :
        extra \in Extras, n \in 0..MaxStations, layout \in Layouts, profile \in Profiles}

\* The filter without its latitude test.
IsValidStation_NoLatitude(s) == s.humidity # None /\ s.longitude # None

\* s.get('humidity') is not None and ... latitude ... longitude
IsValidStation(s) == s.humidity # None /\ s.latitude # None /\ s.longitude # None

ValidStations(stations) == SelectSeq(stations, IsValidStation)

\* Qhull triangulates no set of points that lie on one line.
Collinear(pts) ==
    \A a \in 1..Len(pts) : \A b \in 1..Len(pts) : \A c \in 1..Len(pts) :
        (pts[b].longitude - pts[a].longitude) * (pts[c].latitude - pts[a].latitude)
        = (pts[c].longitude - pts[a].longitude) * (pts[b].latitude - pts[a].latitude)

(* ------------------------------ griddata ------------------------------- *)

\* What scipy's griddata can put in a cell: nan outside the hull of the
\* stations, values below 0 and above 100, values at and beside the bounds of
\* the statistics' inner range, values well inside it.
RawPalette == {NaN, -500, 5, InnerLo, 2000, 5000, InnerHi, 9995, 10500}

\* The part of it the runs of several files draw from.
RunPalette == {NaN, 5000, 10500}

\* A raw field: the cells with r + c even hold a, the others b.
Field(a, b) ==
    [r \in 1..GridRows |-> [c \in 1..GridCols |-> IF (r + c) % 2 = 0 THEN a ELSE b]]

\* The outcomes of the two griddata calls for the valid stations: on collinear
\* points both methods raise (they share the triangulation); otherwise the
\* cubic method returns any field or raises, and the linear method returns a
\* field of values between the least and the greatest reading.
LibOutcomes(valid, palette) ==
    IF Collinear(valid)
    THEN {[cubic |-> "raise", linear |-> "raise", field |-> << >>]}
    ELSE LET hs == [k \in 1..Len(valid) |-> valid[k].humidity]
             lin == {v \in palette : v = NaN \/ (MinSeq(hs) <= v /\ v <= MaxSeq(hs))}
         IN  {[cubic |-> "ok", linear |-> "ok", field |-> Field(a, b)] :
                 a \in palette, b \in palette}
             \cup {[cubic |-> "raise", linear |-> "ok", field |-> Field(a, b)] :
                 a \in lin, b \in lin}

(* ------------------------- interpolate_humidity ------------------------ *)

\* A clip at the lower bound only.
Clip_LowerOnly(v) == IF v = NaN THEN NaN ELSE IF v < ClipLo THEN ClipLo ELSE v

\* np.clip(x, 0, 100): nan stays nan.
Clip(v) == IF v = NaN THEN NaN ELSE IF v < ClipLo THEN ClipLo ELSE IF v > ClipHi THEN ClipHi ELSE v

ClipGrid(g) == [r \in 1..Len(g) |-> [c \in 1..Len(g[r]) |-> Clip(g[r][c])]]

\* grid_humidity[land_mask] = np.nan: the land nulled instead of the sea.
ApplyMask_Inverted(g, m) ==
    [r \in 1..Len(g) |-> [c \in 1..Len(g[r]) |-> IF m[r][c] THEN NaN ELSE g[r][c]]]

\* grid_humidity[~land_mask] = np.nan, for a mask of the grid's shape.
ApplyMask(g, m) ==
    [r \in 1..Len(g) |-> [c \in 1..Len(g[r]) |-> IF m[r][c] THEN g[r][c] ELSE NaN]]

\* A boolean index of another shape taken without complaint.
MaskFault_Silent(g, mask) ==
    IF mask = NoMask THEN "none"
    ELSE IF mask.rows = << >> THEN "TypeError"
    ELSE "none"

\* The exception of grid_humidity[~land_mask] = np.nan, or "none": ~ is not
\* defined on the float array np.array([]), and a boolean index must have the
\* shape of the array it indexes.
MaskFault(g, mask) ==
    IF mask = NoMask THEN "none"
    ELSE IF mask.rows = << >> THEN "TypeError"
    ELSE IF Shape(mask.rows) # Shape(g) THEN "IndexError"
    ELSE "none"

\* grid_humidity[~np.isnan(grid_humidity)]
ValidGrid(g) == SelectSeq(Flatten(g), LAMBDA v : v # NaN)

\* The inner range with its two ends included.
InnerValues_Closed(valid_grid) ==
    SelectSeq(valid_grid, LAMBDA v : v >= InnerLo /\ v <= InnerHi)

\* valid_grid[(valid_grid > 0.1) & (valid_grid < 99.9)]
InnerValues(valid_grid) == SelectSeq(valid_grid, LAMBDA v : v > InnerLo /\ v < InnerHi)

\* grid_humidity.size: every cell counted, nan or not.
CountValid_Size(g) == Len(Flatten(g))

\* int(np.sum(~np.isnan(grid_humidity)))
CountValid(g) == Len(SelectSeq(Flatten(g), LAMBDA v : v # NaN))

\* The statistics with max taken over every cell that holds a number.
ComputeStats_MaxOverAll(g, station_count) ==
    LET valid_grid == ValidGrid(g)
        inner_values == InnerValues(valid_grid)
    IN  [error |-> "",
         min |-> IF Len(inner_values) > 0 THEN Round1(MinSeq(inner_values)) ELSE None,
         max |-> IF Len(valid_grid) > 0 THEN Round1(MaxSeq(valid_grid)) ELSE None,
         avg |-> IF Len(valid_grid) > 0 THEN RoundMean1(valid_grid) ELSE None,
         valid_points |-> CountValid(g),
         station_count |-> station_count]

\* min and max over the inner values, avg over the valid cells, valid_points
\* and station_count.
ComputeStats(g, station_count) ==
    LET valid_grid == ValidGrid(g)
        inner_values == InnerValues(valid_grid)
    IN  [error |-> "",
         min |-> IF Len(inner_values) > 0 THEN Round1(MinSeq(inner_values)) ELSE None,
         max |-> IF Len(inner_values) > 0 THEN Round1(MaxSeq(inner_values)) ELSE None,
         avg |-> IF Len(valid_grid) > 0 THEN RoundMean1(valid_grid) ELSE None,
         valid_points |-> CountValid(g),
         station_count |-> station_count]

\* {'error': 'Not enough valid stations'}
ErrorStats ==
    [error |-> "Not enough valid stations", min |-> None, max |-> None, avg |-> None,
     valid_points |-> None, station_count |-> None]

\* No stats: the call raised, or none was made.
NoStats ==
    [error |-> "", min |-> None, max |-> None, avg |-> None,
     valid_points |-> None, station_count |-> None]

\* The 2D list returned: None for nan, round(float(val), 1) otherwise.
ToList(g) ==
    [r \in 1..Len(g) |-> [c \in 1..Len(g[r]) |->
        IF g[r][c] = NaN THEN None ELSE Round1(g[r][c])]]

\* The grid after the clipping and the mask (the mask has the grid's shape).
Masked(field, mask) ==
    IF mask = NoMask THEN ClipGrid(field) ELSE ApplyMask(ClipGrid(field), mask.rows)

\* A call's outcome.  ret: "insufficient" (None and the error stats), "grid",
\* or "raise" with the exception in exc.  grid_data is << >> for Python's None
\* (a returned grid has GridRows >= 1 rows).  grid_humidity is the array the
\* statistics were computed from; land_mask the mask the call got (called:
\* whether it asked for one); LAND_MASK the global after the call.
Outcome(ret, exc, grid, st, gh, called, got, LM) ==
    [ret |-> ret, exc |-> exc, grid_data |-> grid, stats |-> st,
     grid_humidity |-> gh, called |-> called, land_mask |-> got.mask,
     loaded |-> got.loaded, LAND_MASK |-> LM]

NotAsked(LM) == [mask |-> NoMask, LAND_MASK |-> LM, loaded |-> FALSE]

interpolate_humidity(stations, lib, LM, file) ==
    LET valid_stations == ValidStations(stations)
        got == get_land_mask(LM, file)
        fault == MaskFault(lib.field, got.mask)
        gh == Masked(lib.field, got.mask)
    IN  IF Len(valid_stations) < MinStations
        THEN Outcome("insufficient", "none", << >>, ErrorStats, << >>, FALSE, NotAsked(LM), LM)
        ELSE IF \E k \in 1..Len(valid_stations) : valid_stations[k].humidity = NonNumeric
        THEN Outcome("raise", "ValueError", << >>, NoStats, << >>, FALSE, NotAsked(LM), LM)
        ELSE IF lib.cubic = "raise" /\ lib.linear = "raise"
        THEN Outcome("raise", "QhullError", << >>, NoStats, << >>, FALSE, NotAsked(LM), LM)
        ELSE IF fault # "none"
        THEN Outcome("raise", fault, << >>, NoStats, << >>, TRUE, got, got.LAND_MASK)
        ELSE Outcome("grid", "none", ToList(gh),
                     ComputeStats(gh, Len(valid_stations)), gh, TRUE, got, got.LAND_MASK)

(* ------------------- the listing and the command line ------------------ *)

\* Days with data.  A date is a YYYY-MM-DD string of the zero-padded S3
\* prefixes, and these compare as the days do: a date is the day's number.
MaxDates == 2

\* The files of a day: weather_HHMM.json, HHMM one of two times of day.
Slots == {1, 2}
Files == [date : 1..MaxDates, slot : Slots]

\* f"{date}T{hour}:{minute}:00+08:00": times compare by date, then by time of
\* day.
FileTime(f) == 10 * f.date + f.slot

\* --max-frames, default=720
DefaultMaxFrames == 720

\* The command line: --start-date and --end-date (None when not given) and
\* --max-frames.
ArgChoices ==
    [start_date : {None} \cup (1..MaxDates),
     end_date : {None} \cup (1..MaxDates),
     max_frames : 0..MaxFiles]

DefaultArgs == [start_date |-> None, end_date |-> None, max_frames |-> DefaultMaxFrames]

\* sorted(...)
RECURSIVE Sorted(_)
Sorted(S) ==
    IF S = {} THEN << >>
    ELSE LET m == CHOOSE x \in S : \A y \in S : x <= y
         IN  <<m>> \o Sorted(S \ {m})

RECURSIVE Reversed(_)
Reversed(seq) == IF seq = << >> THEN << >> ELSE Append(Reversed(Tail(seq)), Head(seq))

\* return sorted(dates)
list_dates(b) == Sorted({f.date : f \in b})

\* The files of a date, latest first.
list_files_by_date_LatestFirst(b, date) ==
    Reversed(Sorted({FileTime(f) : f \in {g \in b : g.date = date}}))

\* return sorted(files, key=lambda x: x['time'])
list_files_by_date(b, date) == Sorted({FileTime(f) : f \in {g \in b : g.date = date}})

\* if start_date: ... d >= start_date; if end_date: ... d <= end_date
FilterDates(all_dates, start_date, end_date) ==
    LET since == IF start_date # None
                 THEN SelectSeq(all_dates, LAMBDA d : d >= start_date)
                 ELSE all_dates
    IN  IF end_date # None THEN SelectSeq(since, LAMBDA d : d <= end_date) ELSE since

\* for date in all_dates: all_files.extend(reader.list_files_by_date(date))
RECURSIVE CollectFiles(_, _)
CollectFiles(b, all_dates) ==
    IF all_dates = << >> THEN << >>
    ELSE list_files_by_date(b, Head(all_dates)) \o CollectFiles(b, Tail(all_dates))

\* seq[start:] in Python: a negative start counts from the end, and -0 is 0.
SliceFrom(seq, start) ==
    LET n == Len(seq)
        first == IF start < 0
                 THEN (IF n + start < 0 THEN 0 ELSE n + start)
                 ELSE (IF start > n THEN n ELSE start)
    IN  SubSeq(seq, first + 1, n)

\* if len(all_files) > max_frames: all_files = all_files[-max_frames:]
LimitFrames(all_files, max_frames) ==
    IF Len(all_files) > max_frames THEN SliceFrom(all_files, -max_frames) ELSE all_files

(* ------------------------------ the output ----------------------------- *)

\* A geo_info: its bounding box in hundredths of a degree; NoGeo where there
\* is none.
NoGeo == [none |-> TRUE, bbox |-> << >>]
Geo(bbox) == [none |-> FALSE, bbox |-> bbox]

\* GEO_INFO of update_humidity.py
GEO_INFO == Geo(<<12000, 2188, 12198, 2545>>)

\* The bounding box update_data.py falls back on.
DefaultGeo == Geo(<<11800, 2100, 12300, 2600>>)

\* What data.get('geo_info') is for a temperature file: absent, or one of two
\* boxes.
FileGeos == {NoGeo, Geo(<<12000, 2188, 12198, 2545>>), Geo(<<11900, 2100, 12200, 2600>>)}

\* The file at the output path: absent, or left by an earlier run.
NoFile ==
    [generated_at |-> "never", start_time |-> None, end_time |-> None,
     total_frames |-> None, geo_info |-> NoGeo]

EarlierFile ==
    [generated_at |-> "earlier", start_time |-> 11, end_time |-> 11,
     total_frames |-> 1, geo_info |-> DefaultGeo]

\* The metadata written for frames (their times) and, in update_data.py, the
\* geo_info each frame carries; ret is "empty" for the {} returned on no
\* frames, and file is what the output path holds afterwards.
generate_timelapse_json(scr, frs, geos, file) ==
    IF frs = << >>
    THEN [ret |-> "empty", file |-> file]
    ELSE LET carrying == {k \in 1..Len(geos) : geos[k] # NoGeo}
             found == IF carrying = {} THEN NoGeo
                      ELSE geos[CHOOSE k \in carrying : \A j \in carrying : k <= j]
             geo_info == IF scr = "humidity" THEN GEO_INFO
                         ELSE IF found = NoGeo THEN DefaultGeo ELSE found
         IN  [ret |-> "data",
              file |-> [generated_at |-> "now",
                        start_time |-> frs[1],
                        end_time |-> frs[Len(frs)],
                        total_frames |-> Len(frs),
                        geo_info |-> geo_info]]

\* The exit status of a main that gets frames back: sys.exit(1) on none.
main_exit_Zero(frs) == 0

main_exit(frs) == IF frs = << >> THEN 1 ELSE 0

(* ------------------------------ the run -------------------------------- *)

VARIABLES
    tempFile,      \* what public/temperature_timelapse_data.json holds
    tempWrites,    \* times update_data.py has rewritten it
    LAND_MASK,     \* the module's global
    loadCount,     \* times load_land_mask has run
    firstMask,     \* what the first get_land_mask call returned
    all_files,     \* the times of the files of the run, in time order
    i,             \* files the loop is done with
    pc,            \* "main", "fetch", "emit", "done", "aborted", "exit0", "exit1"
    frames,        \* the times of the frames appended
    expected,      \* the times of the files read with >= 4 valid stations
    stations,      \* data['data'] of the file at hand
    grid_data,     \* the loop's locals after the call
    stats,
    call,          \* the call at hand: its library outcome and what it did
    prev,          \* an earlier call of the run: its stations and what it returned
    script,        \* "humidity" (update_humidity.py) or "temperature" (update_data.py)
    bucket,        \* the files the S3 listing finds
    args,          \* start_date, end_date and max_frames of the command line
    output,        \* the file at args.output
    frame_geo,     \* update_data.py: the 'geo_info' of each frame appended
    firstGeo       \* the geo_info of the earliest file downloaded that has one

vars == <<tempFile, tempWrites, LAND_MASK, loadCount, firstMask, all_files, i, pc,
          frames, expected, stations, grid_data, stats, call, prev, script, bucket,
          args, output, frame_geo, firstGeo>>

\* What main and its command line hold, what update_data.py's loop adds.
mainVars == <<script, bucket, args, output, frame_geo, firstGeo>>

NoLib == [cubic |-> "none", linear |-> "none", field |-> << >>]

\* No call kept.
NoPrev ==
    [set |-> FALSE, stations |-> << >>, lib |-> NoLib, grid_data |-> << >>,
     stats |-> NoStats]

NoCall ==
    [ret |-> "none", exc |-> "none", lib |-> NoLib, grid_humidity |-> << >>,
     called |-> FALSE, land_mask |-> NoMask, loaded |-> FALSE]

\* griddata is reached by the lists that pass the threshold and the float()
\* conversions.
LibChoices(sl, palette) ==
    LET valid == ValidStations(sl)
    IN  IF Len(valid) < MinStations
           \/ \E k \in 1..Len(valid) : valid[k].humidity = NonNumeric
        THEN {NoLib}
        ELSE LibOutcomes(valid, palette)

\* The download loop of update_humidity.py is about to start, on the files
\* listed under the default command line.
Init ==
    /\ tempFile \in TempFiles
    /\ tempWrites = 0
    /\ LAND_MASK = NoMask
    /\ loadCount = 0
    /\ firstMask = [set |-> FALSE, mask |-> NoMask]
    /\ bucket \in {{f \in Files : FileTime(f) <= t} : t \in 0..(10 * MaxDates + 2)}
    /\ Cardinality(bucket) <= MaxFiles
    /\ args = DefaultArgs
    /\ all_files = LimitFrames(CollectFiles(bucket, list_dates(bucket)), args.max_frames)
    /\ script = "humidity"
    /\ output = NoFile
    /\ frame_geo = << >>
    /\ firstGeo = NoGeo
    /\ prev = NoPrev
    /\ i = 0
    /\ pc = "fetch"
    /\ frames = << >>
    /\ expected = << >>
    /\ stations = << >>
    /\ grid_data = << >>
    /\ stats = NoStats
    /\ call = NoCall

\* get_json returned None (no such key, a client error, not JSON) or a dict
\* without 'data' (update_data.py: None or an empty dict): the loop goes on to
\* the next file.
SkipUnreadable ==
    /\ pc = "fetch"
    /\ i < Len(all_files)
    /\ i' = i + 1
    /\ UNCHANGED <<tempFile, tempWrites, LAND_MASK, loadCount, firstMask, all_files, pc,
                   frames, expected, stations, grid_data, stats, call, prev, mainVars>>

\* grid_data, stats = interpolate_humidity(stations, GEO_INFO) for the stations
\* sl, griddata doing lib on them.
Call(sl, lib) ==
    /\ script = "humidity"
    /\ pc = "fetch"
    /\ i < Len(all_files)
    /\   LET out == interpolate_humidity(sl, lib, LAND_MASK, tempFile)
         IN  /\ stations' = sl
             /\ grid_data' = out.grid_data
             /\ stats' = out.stats
             /\ call' = [ret |-> out.ret, exc |-> out.exc, lib |-> lib,
                         grid_humidity |-> out.grid_humidity, called |-> out.called,
                         land_mask |-> out.land_mask, loaded |-> out.loaded]
             /\ LAND_MASK' = out.LAND_MASK
             /\ loadCount' = IF out.loaded THEN loadCount + 1 ELSE loadCount
             /\ firstMask' = IF out.called /\ ~firstMask.set
                             THEN [set |-> TRUE, mask |-> out.land_mask]
                             ELSE firstMask
             /\ expected' = IF Len(ValidStations(sl)) >= MinStations
                            THEN Append(expected, all_files[i + 1])
                            ELSE expected
             /\ pc' = IF out.ret = "raise" THEN "aborted" ELSE "emit"
    /\ UNCHANGED <<tempFile, tempWrites, all_files, i, frames, prev, mainVars>>

\* data['data'] is read and interpolate_humidity called on it; griddata's
\* fields are drawn from palette.
Interpolate(palette) ==
    \E sl \in StationLists : \E lib \in LibChoices(sl, palette) : Call(sl, lib)

InterpolateFrame == Interpolate(RunPalette)

\* The call returned.  if grid_data: frames.append(frame).  With remember, the
\* call's stations, library outcome and return value are kept in prev.
Emit(remember) ==
    /\ pc = "emit"
    /\ prev' = IF remember
               THEN [set |-> TRUE, stations |-> stations, lib |-> call.lib,
                     grid_data |-> grid_data, stats |-> stats]
               ELSE prev
    /\ frames' = IF grid_data # << >> THEN Append(frames, all_files[i + 1]) ELSE frames
    /\ i' = i + 1
    /\ pc' = "fetch"
    /\ stations' = << >>
    /\ grid_data' = << >>
    /\ stats' = NoStats
    /\ call' = NoCall
    /\ UNCHANGED <<tempFile, tempWrites, LAND_MASK, loadCount, firstMask, all_files,
                   expected, mainVars>>

EmitFrame == Emit(FALSE)

\* return frames
ReturnFrames ==
    /\ pc = "fetch"
    /\ i = Len(all_files)
    /\ pc' = "done"
    /\ UNCHANGED <<tempFile, tempWrites, LAND_MASK, loadCount, firstMask, all_files, i,
                   frames, expected, stations, grid_data, stats, call, prev, mainVars>>

\* update_data.py writes the temperature timelapse while the humidity run is
\* between two files.
WriteTemperatureFile ==
    /\ pc = "fetch"
    /\ tempWrites < MaxTempWrites
    /\ \E f \in WrittenTempFiles \ {tempFile} : tempFile' = f
    /\ tempWrites' = tempWrites + 1
    /\ UNCHANGED <<LAND_MASK, loadCount, firstMask, all_files, i, pc, frames, expected,
                   stations, grid_data, stats, call, prev, mainVars>>

Next ==
    \/ SkipUnreadable
    \/ InterpolateFrame
    \/ EmitFrame
    \/ ReturnFrames
    \/ WriteTemperatureFile

Spec == Init /\ [][Next]_vars

(* ------------------- one call, over the whole palette ------------------ *)

\* A run of one file, the temperature file as it is when the run starts.
InitOne == Init /\ Len(all_files) = 1

InterpolateOne == Interpolate(RawPalette)

NextOne ==
    \/ SkipUnreadable
    \/ InterpolateOne
    \/ EmitFrame
    \/ ReturnFrames

SpecOne == InitOne /\ [][NextOne]_vars

(* ------------------ two calls on the same stations --------------------- *)

\* A run of two files that hold the same stations: the first call is kept in
\* prev, the temperature file may be rewritten between the two, and the second
\* call is made on the stations of the first, griddata doing on them what it
\* did before.
InitTwo == Init /\ Len(all_files) = 2

InterpolateFirst == ~prev.set /\ Interpolate(RunPalette)

Remember == ~prev.set /\ Emit(TRUE)

WriteBetween == prev.set /\ WriteTemperatureFile

InterpolateAgain == prev.set /\ Call(prev.stations, prev.lib)

EmitAgain == prev.set /\ Emit(FALSE)

NextTwo ==
    \/ InterpolateFirst
    \/ Remember
    \/ WriteBetween
    \/ InterpolateAgain
    \/ EmitAgain
    \/ ReturnFrames

SpecTwo == InitTwo /\ [][NextTwo]_vars

(* --------------------- main, of either script -------------------------- *)

\* The station lists and griddata values of the runs of main: three valid
\* stations, four, four on one line.
PlainPalette == {5000}
PlainLists ==
    {[k \in 1..n |-> Station("spread", "normal", k)] : n \in {MinStations - 1, MinStations}}
    \cup {[k \in 1..MinStations |-> Station("line", "normal", k)]}

\* main of update_humidity.py or of update_data.py is about to call the
\* download function; no temperature file is there for the land mask.
InitMain ==
    /\ tempFile = [kind |-> "missing", data |-> << >>]
    /\ tempWrites = 0
    /\ LAND_MASK = NoMask
    /\ loadCount = 0
    /\ firstMask = [set |-> FALSE, mask |-> NoMask]
    /\ script \in {"humidity", "temperature"}
    /\ bucket \in {b \in SUBSET Files : Cardinality(b) <= MaxFiles}
    /\ args \in ArgChoices
    /\ output \in {NoFile, EarlierFile}
    /\ all_files = << >>
    /\ i = 0
    /\ pc = "main"
    /\ frames = << >>
    /\ frame_geo = << >>
    /\ firstGeo = NoGeo
    /\ expected = << >>
    /\ stations = << >>
    /\ grid_data = << >>
    /\ stats = NoStats
    /\ call = NoCall
    /\ prev = NoPrev

\* The download function up to its loop: the dates listed and filtered (return
\* [] when none is left), the files collected and limited.
ListAndLimit ==
    /\ pc = "main"
    /\ LET all_dates == list_dates(bucket)
           in_range == FilterDates(all_dates, args.start_date, args.end_date)
       IN  IF all_dates = << >> \/ in_range = << >>
           THEN all_files' = << >> /\ pc' = "done"
           ELSE /\ all_files' = LimitFrames(CollectFiles(bucket, in_range), args.max_frames)
                /\ pc' = "fetch"
    /\ UNCHANGED <<tempFile, tempWrites, LAND_MASK, loadCount, firstMask, i, frames,
                   expected, stations, grid_data, stats, call, prev, mainVars>>

InterpolatePlain ==
    \E sl \in PlainLists : \E lib \in LibChoices(sl, PlainPalette) : Call(sl, lib)

\* update_data.py: get_json returned a dict that is not empty; the frame is
\* appended, with the file's geo_info if it is the first frame and the file has
\* one.
DownloadTemperature ==
    /\ script = "temperature"
    /\ pc = "fetch"
    /\ i < Len(all_files)
    /\ \E geo \in FileGeos :
         /\ frame_geo' = Append(frame_geo, IF frames = << >> /\ geo # NoGeo THEN geo ELSE NoGeo)
         /\ firstGeo' = IF firstGeo = NoGeo THEN geo ELSE firstGeo
    /\ frames' = Append(frames, all_files[i + 1])
    /\ i' = i + 1
    /\ UNCHANGED <<tempFile, tempWrites, LAND_MASK, loadCount, firstMask, all_files, pc,
                   expected, stations, grid_data, stats, call, prev, script, bucket,
                   args, output>>

\* update_data.py: get_json returned JSON that is no dict (a list that is not
\* empty); data.get raises AttributeError, which nothing catches.
DownloadMalformed ==
    /\ script = "temperature"
    /\ pc = "fetch"
    /\ i < Len(all_files)
    /\ pc' = "aborted"
    /\ UNCHANGED <<tempFile, tempWrites, LAND_MASK, loadCount, firstMask, all_files, i,
                   frames, expected, stations, grid_data, stats, call, prev, mainVars>>

\* main after the download: sys.exit(1) on no frames, generate_timelapse_json
\* otherwise.
Finish ==
    /\ pc = "done"
    /\ IF main_exit(frames) = 1
       THEN pc' = "exit1" /\ output' = output
       ELSE /\ pc' = "exit0"
            /\ output' = generate_timelapse_json(script, frames, frame_geo, output).file
    /\ UNCHANGED <<tempFile, tempWrites, LAND_MASK, loadCount, firstMask, all_files, i,
                   frames, expected, stations, grid_data, stats, call, prev, script,
                   bucket, args, frame_geo, firstGeo>>

NextMain ==
    \/ ListAndLimit
    \/ SkipUnreadable
    \/ InterpolatePlain
    \/ EmitFrame
    \/ DownloadTemperature
    \/ DownloadMalformed
    \/ ReturnFrames
    \/ Finish

SpecMain == InitMain /\ [][NextMain]_vars

(* ------------------------------ claims --------------------------------- *)

Cells == (1..GridRows) \X (1..GridCols)

\* The stations of the file at hand with none of the three fields null.
NValid ==
    Cardinality({k \in 1..Len(stations) :
        /\ stations[k].humidity # None
        /\ stations[k].latitude # None
        /\ stations[k].longitude # None})

\* The cells of the call's raw field that hold a number.
RawNumeric == {rc \in Cells : call.lib.field[rc[1]][rc[2]] # NaN}

\* The mask the call got does not have the grid's shape.
MaskMismatch ==
    /\ call.called
    /\ call.land_mask # NoMask
    /\ Shape(call.land_mask.rows) # <<GridRows, GridCols>>

\* C1, as stated: with 3 or fewer valid stations the call returns None and the
\* error indication, and with 4 or more valid stations it returns a grid.
\* (The calls that raise for a reading float() cannot parse, for points on one
\* line or for an empty mask array are left aside: the statement fails without
\* them.)
C1_GridFromFour ==
    (call.ret # "none" /\ call.exc \notin {"ValueError", "QhullError", "TypeError"}) =>
        /\ NValid < 4 => call.ret = "insufficient" /\ grid_data = << >> /\ stats = ErrorStats
        /\ NValid >= 4 => call.ret = "grid"

\* C1, amended: with 3 or fewer valid stations the call returns None and the
\* error indication and does not raise; with 4 or more valid stations it never
\* reports insufficient stations: it returns a grid of GridRows x GridCols
\* cells, or raises (a humidity float() cannot parse, points that cannot be
\* triangulated, a mask that does not fit the grid).  Stations with a null
\* field do not count.
C1_Threshold ==
    call.ret # "none" =>
        /\ NValid < 4 =>
            /\ call.ret = "insufficient"
            /\ call.exc = "none"
            /\ grid_data = << >>
            /\ stats = ErrorStats
        /\ NValid >= 4 =>
            /\ call.ret \in {"grid", "raise"}
            /\ stats # ErrorStats
            /\ call.ret = "grid" => Shape(grid_data) = <<GridRows, GridCols>>
            /\ call.ret = "raise" =>
                 call.exc \in {"ValueError", "QhullError", "TypeError", "IndexError"}

\* C1's case: four stations of which three are valid, and the call reports
\* insufficient stations.
C1_Witness ==
    /\ Len(stations) = 4
    /\ NValid = 3
    /\ call.ret = "insufficient"
    /\ pc = "emit"

\* C2: with a land mask, every cell the mask marks False is None in the grid
\* returned, whatever the interpolation produced there.
C2_MaskInvariant ==
    (call.ret = "grid" /\ call.land_mask # NoMask) =>
        /\ Shape(call.land_mask.rows) = <<GridRows, GridCols>>
        /\ \A rc \in Cells :
             ~call.land_mask.rows[rc[1]][rc[2]] => grid_data[rc[1]][rc[2]] = None

\* C2's case: in the second frame of a run, a cell where griddata produced a
\* number is masked out and another is kept.
C2_Witness ==
    /\ call.ret = "grid"
    /\ call.land_mask # NoMask
    /\ i = 1
    /\ \E rc \in RawNumeric :
         ~call.land_mask.rows[rc[1]][rc[2]] /\ grid_data[rc[1]][rc[2]] = None
    /\ \E rc \in RawNumeric :
         call.land_mask.rows[rc[1]][rc[2]] /\ grid_data[rc[1]][rc[2]] # None

\* C3: every cell of a returned grid that is not None lies in 0..100 (0..1000
\* tenths).
C3_Clamped ==
    call.ret = "grid" =>
        \A rc \in Cells :
            grid_data[rc[1]][rc[2]] # None =>
                (0 <= grid_data[rc[1]][rc[2]] /\ grid_data[rc[1]][rc[2]] <= 1000)

\* C3's case: the linear fallback on readings outside 0..100 put a value below
\* 0 in one cell and a value above 100 in another; they come out as 0 and 100.
C3_Witness ==
    /\ call.ret = "grid"
    /\ call.lib.cubic = "raise"
    /\ \E rc \in Cells :
         call.lib.field[rc[1]][rc[2]] < 0 /\ call.lib.field[rc[1]][rc[2]] # NaN
         /\ grid_data[rc[1]][rc[2]] = 0
    /\ \E rc \in Cells :
         call.lib.field[rc[1]][rc[2]] > ClipHi /\ grid_data[rc[1]][rc[2]] = 1000

\* C4: no frame's data aborts the run (a humidity float() cannot parse, points
\* that cannot be triangulated), and the run ends with the frames of exactly
\* the files that were read with 4 or more valid stations, in input order.
C4_PerFrameIsolation ==
    /\ ~(pc = "aborted" /\ call.exc \in {"ValueError", "QhullError"})
    /\ pc = "done" => frames = expected

\* C5: every get_land_mask call of a run returns what the first call returned
\* (stated for the calls that go on to return a grid).
C5_OneMaskPerRun ==
    (call.called /\ call.ret = "grid") => call.land_mask = firstMask.mask

\* C6: load_land_mask runs at most once in a run.
C6_LoadedAtMostOnce ==
    loadCount <= 1

\* C7: a call that gets a mask of another shape than the grid raises: it
\* returns no grid and the run is aborted, so that no frame is appended from
\* it (frames are appended in the "emit" position only).
C7_MismatchAborts ==
    MaskMismatch =>
        /\ call.ret = "raise"
        /\ call.exc \in {"IndexError", "TypeError"}
        /\ grid_data = << >>
        /\ pc = "aborted"

\* C7's case: after a frame was appended unmasked, the temperature file is
\* written with a row too many and the next call raises IndexError.
C7_Witness ==
    /\ MaskMismatch
    /\ Shape(call.land_mask.rows) = <<GridRows + 1, GridCols>>
    /\ call.exc = "IndexError"
    /\ pc = "aborted"
    /\ Len(frames) = 1

\* The temperature file is absent or malformed: missing, not JSON, without
\* frames, or with a first frame that has no data.
ReferenceUnavailable ==
    \/ tempFile.kind \in {"missing", "badjson", "noframes", "nodata"}
    \/ tempFile.kind = "frames" /\ tempFile.data = << >>

\* C8: with the temperature file absent or malformed, a call with 4 or more
\* usable stations gets no mask and returns a grid in which exactly the cells
\* griddata left undefined are None.
C8_DegradedMode ==
    (ReferenceUnavailable /\ call.ret \in {"grid", "raise"}
        /\ call.exc \notin {"ValueError", "QhullError"}) =>
        /\ call.land_mask = NoMask
        /\ call.ret = "grid"
        /\ \A rc \in Cells : grid_data[rc[1]][rc[2]] = None <=> rc \notin RawNumeric

\* The cells of the array the statistics are computed from that hold a number,
\* those of them strictly between 0.1 and 99.9, and a cell's value.
StatCells == {rc \in Cells : call.grid_humidity[rc[1]][rc[2]] # NaN}
InnerCells ==
    {rc \in StatCells : call.grid_humidity[rc[1]][rc[2]] > 10
                        /\ call.grid_humidity[rc[1]][rc[2]] < 9990}
CellValue(rc) == call.grid_humidity[rc[1]][rc[2]]

RECURSIVE SumCells(_)
SumCells(S) ==
    IF S = {} THEN 0
    ELSE LET rc == CHOOSE x \in S : TRUE IN CellValue(rc) + SumCells(S \ {rc})

\* t tenths is h hundredths rounded to one decimal, n-fold: |10 t n - h| <= 5 n.
IsRounded(t, h, n) == 10 * t * n - h <= 5 * n /\ h - 10 * t * n <= 5 * n

\* C9: min and max are the least and the greatest value (to one decimal) of
\* the cells that hold a number strictly between 0.1 and 99.9 and are absent
\* when there is none; avg is the mean (to one decimal) of all cells that hold
\* a number and is absent only when there is none.
C9_EdgeExclusion ==
    call.ret = "grid" =>
        /\ InnerCells = {} => stats.min = None /\ stats.max = None
        /\ InnerCells # {} =>
            /\ \E lo \in InnerCells :
                 /\ \A rc \in InnerCells : CellValue(lo) <= CellValue(rc)
                 /\ IsRounded(stats.min, CellValue(lo), 1)
            /\ \E hi \in InnerCells :
                 /\ \A rc \in InnerCells : CellValue(hi) >= CellValue(rc)
                 /\ IsRounded(stats.max, CellValue(hi), 1)
        /\ StatCells = {} <=> stats.avg = None
        /\ StatCells # {} =>
             IsRounded(stats.avg, SumCells(StatCells), Cardinality(StatCells))

\* C9's case: cells at 0.05 and at 50.0: min and max are 50.0, avg is pulled
\* down by the cells at 0.05.
C9_Witness ==
    /\ call.ret = "grid"
    /\ \E rc \in StatCells : CellValue(rc) = 5
    /\ InnerCells # {} /\ InnerCells # StatCells
    /\ stats.min = 500
    /\ stats.max = 500
    /\ stats.avg # None /\ stats.avg < 500

\* C10: valid_points is the number of cells of the returned grid that are not
\* None.
C10_ValidPoints ==
    call.ret = "grid" =>
        stats.valid_points
            = Cardinality({rc \in Cells : grid_data[rc[1]][rc[2]] # None})

\* C10's case: one cell is None because the mask nulled a number, another
\* because griddata left it undefined, and the cells left are counted.
C10_Witness ==
    /\ call.ret = "grid"
    /\ call.land_mask # NoMask
    /\ \E rc \in RawNumeric : grid_data[rc[1]][rc[2]] = None
    /\ \E rc \in Cells \ RawNumeric : call.land_mask.rows[rc[1]][rc[2]]
    /\ stats.valid_points > 0
    /\ stats.valid_points < GridRows * GridCols

\* C11: whenever the cubic griddata call raises for an input with 4 or more
\* valid stations (points on one line among them), the call goes on to the
\* linear method and returns a grid of GridRows x GridCols cells instead of
\* raising.  (The calls that raise afterwards, at the mask, are left aside.)
C11_FallbackReturnsGrid ==
    (call.lib.cubic = "raise" /\ NValid >= 4
        /\ call.exc \notin {"IndexError", "TypeError"}) =>
        /\ call.ret = "grid"
        /\ Shape(grid_data) = <<GridRows, GridCols>>

\* C16: in the stats of a returned grid, min present implies max and avg
\* present and valid_points > 0; min <= max; min and max are present or absent
\* together; avg is absent exactly when valid_points = 0.
C16_StatsConsistent ==
    call.ret = "grid" =>
        /\ stats.min # None =>
             stats.max # None /\ stats.avg # None /\ stats.valid_points > 0
        /\ (stats.min # None /\ stats.max # None) => stats.min <= stats.max
        /\ stats.min = None <=> stats.max = None
        /\ stats.avg = None <=> stats.valid_points = 0

\* C16's case: a grid whose cells all sit at the ends of the range (0 and 100
\* after the clip): min and max are absent, avg is present.
C16_Witness ==
    /\ call.ret = "grid"
    /\ stats.min = None
    /\ stats.max = None
    /\ stats.avg # None
    /\ stats.valid_points > 0

\* C12: two calls of a run on identical stations (griddata doing the same on
\* them) that both return a grid return the same grid and the same stats,
\* whatever was processed before and whatever the global mask held.
C12_SameInputSameOutput ==
    (prev.set /\ prev.grid_data # << >> /\ call.ret = "grid"
        /\ stations = prev.stations /\ call.lib = prev.lib) =>
        /\ grid_data = prev.grid_data
        /\ stats = prev.stats

\* C13: in the file generate_timelapse_json wrote, total_frames is the number
\* of frames emitted, start_time the time of the first and end_time the time
\* of the last; the frames are in non-decreasing time order, so no frame is
\* earlier than start_time or later than end_time.
C13_RunSummary ==
    pc = "exit0" =>
        /\ output.generated_at = "now"
        /\ output.total_frames = Len(frames)
        /\ output.start_time = frames[1]
        /\ output.end_time = frames[Len(frames)]
        /\ \A k \in 1..(Len(frames) - 1) : frames[k] <= frames[k + 1]
        /\ \A k \in 1..Len(frames) :
             output.start_time <= frames[k] /\ frames[k] <= output.end_time

\* C13's case: two files of one day are listed, both give a frame, and the
\* file written spans from the first to the second.
C13_Witness ==
    /\ pc = "exit0"
    /\ Len(frames) = 2
    /\ \E f \in bucket : \E g \in bucket : f.date = g.date /\ f.slot < g.slot
    /\ output.total_frames = 2
    /\ output.start_time < output.end_time

\* The times of the files of the bucket whose date is in the range asked for.
InRangeTimes ==
    {FileTime(f) : f \in {g \in bucket :
        /\ args.start_date # None => g.date >= args.start_date
        /\ args.end_date # None => g.date <= args.end_date}}

\* C14: for every max_frames >= 0 (0 among them) the loop of either script is
\* given at most max_frames files, exactly the latest max_frames when more are
\* there, and at most max_frames frames are emitted.
C14_FrameLimit ==
    pc # "main" =>
        /\ Len(all_files) <= args.max_frames
        /\ Len(frames) <= args.max_frames
        /\ Cardinality(InRangeTimes) > args.max_frames =>
             {all_files[k] : k \in 1..Len(all_files)}
               = {t \in InRangeTimes :
                    Cardinality({u \in InRangeTimes : u > t}) < args.max_frames}

\* C15: update_data.py writes as metadata geo_info the geo_info of the earliest
\* downloaded file that has one, and the default box only when no downloaded
\* file has one.  (Stated for the runs with max_frames > 0, where the limit
\* works as meant.)
C15_GeoOfFirstCarrier ==
    (script = "temperature" /\ pc = "exit0" /\ args.max_frames > 0) =>
        output.geo_info = IF firstGeo = NoGeo THEN DefaultGeo ELSE firstGeo

\* How the script ended: 0, 1 (sys.exit(1), or an exception nothing caught),
\* None while it runs.
ExitStatus ==
    IF pc = "exit0" THEN 0 ELSE IF pc \in {"exit1", "aborted"} THEN 1 ELSE None

\* C17: a script that ends with no frame emitted ends with status 1 and has
\* not written the output file (it is as absent, or as left by an earlier run,
\* as before); the file is only ever written from frames; and
\* generate_timelapse_json on no frames returns the empty result and leaves
\* the file as it is.
C17_NoEmptyOutput ==
    /\ (ExitStatus # None /\ frames = << >>) =>
         ExitStatus = 1 /\ output \in {NoFile, EarlierFile}
    /\ output.generated_at = "now" => (frames # << >> /\ output.total_frames > 0)
    /\ generate_timelapse_json(script, << >>, << >>, output)
         = [ret |-> "empty", file |-> output]

\* C17's case: files were listed, every one of them was skipped, and main
\* exits with status 1 with the file of the earlier run still in place.
C17_Witness ==
    /\ pc = "exit1"
    /\ Len(all_files) = 2
    /\ i = 2
    /\ frames = << >>
    /\ output = EarlierFile

====
